---- MODULE Spec2Model ----
(***************************************************************************)
(* Model of src/api.js (videojs-languages): pattern normalisation,         *)
(* directory normalisation, source discovery, destination derivation and   *)
(* the convert entry point.                                                *)
(*                                                                         *)
(* JavaScript strings are sequences of one-character strings, so that      *)
(* basename/dirname/extname/join/substr are computed character by          *)
(* character.  Every JavaScript value is a record [t, s, a]: t is the      *)
(* type tag, s the characters of a string, a the elements of an array.     *)
(***************************************************************************)
EXTENDS Integers, Sequences, FiniteSets, TLC

VARIABLES
  pc,          \* "start"/"idle", or the name of the function that just returned
  arg,         \* the arguments of the current call
  ret,         \* its return value
  dirs,        \* the directories that exist on the filesystem (normalised paths)
  dirsBefore,  \* the directories that existed when the current call began
  ndir,        \* convert's local: the value normalizeDir returned
  calls,       \* the calls made to globby.sync and mkdirp.sync, in order
  prev         \* the previous normalizeDir call: [arg, ret, before]

vars == <<pc, arg, ret, dirs, dirsBefore, ndir, calls, prev>>

(* ------------------------------ bounds -------------------------------- *)

\* longest patterns array handed to normalizePatterns
MaxArr == 4

\* longest result of the glob resolver
MaxGlob == 2

(* -------------------------- JavaScript values ------------------------- *)

Str(s) == [t |-> "string", s |-> s, a |-> <<>>]
Arr(a) == [t |-> "array", s |-> <<>>, a |-> a]
Null == [t |-> "null", s |-> <<>>, a |-> <<>>]
Undefined == [t |-> "undefined", s |-> <<>>, a |-> <<>>]
Num0 == [t |-> "number0", s |-> <<>>, a |-> <<>>]
Num42 == [t |-> "number", s |-> <<>>, a |-> <<>>]
Obj == [t |-> "object", s |-> <<>>, a |-> <<>>]

\* placeholder for "no value yet" and the marker of a propagated exception
None == [t |-> "none", s |-> <<>>, a |-> <<>>]
Thrown == [t |-> "thrown", s |-> <<>>, a |-> <<>>]

\* characters matched by \s in the alphabet used here
Whitespace == {" ", "\t", "\n"}

\* JavaScript truthiness (used by `dir || path.dirname(src)`)
Truthy(v) ==
  CASE v.t = "string" -> v.s # <<>>
    [] v.t \in {"null", "undefined", "number0"} -> FALSE
    [] OTHER -> TRUE

(* ------------------------- sequence utilities ------------------------- *)

Range(seq) == {seq[i] : i \in 1..Len(seq)}

\* sequences over S of length at most n
SeqsUpTo(S, n) == UNION {[1..k -> S] : k \in 0..n}

\* duplicate-free sequences over S of length at most n
InjSeqsUpTo(S, n) ==
  {q \in SeqsUpTo(S, n) : \A i, j \in 1..Len(q) : i # j => q[i] # q[j]}

(* ------------------------------ nonEmptyStr --------------------------- *)

nonEmptyStr(v) ==
  v.t = "string" /\ \E i \in 1..Len(v.s) : v.s[i] \notin Whitespace

(* --------------------------- normalizePatterns ------------------------ *)

\* the default pattern "lang/*.json"
DefaultPattern == Str(<<"l","a","n","g","/","*",".","j","s","o","n">>)

RECURSIVE filterNonEmptyStr(_)
filterNonEmptyStr(a) ==
  IF a = <<>> THEN <<>>
  ELSE IF nonEmptyStr(Head(a))
       THEN <<Head(a)>> \o filterNonEmptyStr(Tail(a))
       ELSE filterNonEmptyStr(Tail(a))

\* as normalizePatterns, without the test for an effectively empty array
normalizePatternsNoDefault(patterns) ==
  IF nonEmptyStr(patterns) THEN <<patterns>>
  ELSE IF patterns.t # "array" THEN <<DefaultPattern>>
       ELSE filterNonEmptyStr(patterns.a)

\* as normalizePatterns, keeping every string of length > 0 of an array
normalizePatternsKeepBlank(patterns) ==
  IF nonEmptyStr(patterns) THEN <<patterns>>
  ELSE IF patterns.t # "array"
          \/ ~ \E i \in 1..Len(patterns.a) : nonEmptyStr(patterns.a[i])
       THEN <<DefaultPattern>>
       ELSE SelectSeq(patterns.a, LAMBDA v : v.t = "string" /\ v.s # <<>>)

normalizePatterns(patterns) ==
  IF nonEmptyStr(patterns) THEN <<patterns>>
  ELSE IF patterns.t # "array"
          \/ ~ \E i \in 1..Len(patterns.a) : nonEmptyStr(patterns.a[i])
       THEN <<DefaultPattern>>
       ELSE filterNonEmptyStr(patterns.a)

(* --------------------------- path (posix) ----------------------------- *)

RECURSIVE StripTrailingSlashes(_)
StripTrailingSlashes(p) ==
  IF p # <<>> /\ p[Len(p)] = "/"
  THEN StripTrailingSlashes(SubSeq(p, 1, Len(p) - 1))
  ELSE p

\* index of the last c in p, 0 when there is none
LastIndexOf(p, c) ==
  LET I == {i \in 1..Len(p) : p[i] = c}
  IN IF I = {} THEN 0 ELSE CHOOSE i \in I : \A j \in I : j <= i

\* path.basename(p)
Basename(p) ==
  LET q == StripTrailingSlashes(p)
  IN SubSeq(q, LastIndexOf(q, "/") + 1, Len(q))

\* path.dirname(p)
Dirname(p) ==
  IF p = <<>> THEN <<".">>
  ELSE LET hasRoot == p[1] = "/"
           \* slashes at index >= 2 that are followed by a non-slash later on
           E == {i \in 2..Len(p) :
                   p[i] = "/" /\ \E j \in (i+1)..Len(p) : p[j] # "/"}
           end == IF E = {} THEN 0 ELSE CHOOSE i \in E : \A j \in E : j <= i
       IN IF end = 0 THEN (IF hasRoot THEN <<"/">> ELSE <<".">>)
          ELSE IF hasRoot /\ end = 2 THEN <<"/", "/">>
          ELSE SubSeq(p, 1, end - 1)

\* path.extname(p)
Extname(p) ==
  LET bn == Basename(p)
      d == LastIndexOf(bn, ".")
  IN IF d = 0 \/ d = 1 THEN <<>>
     ELSE IF bn = <<".", ".">> THEN <<>>
     ELSE SubSeq(bn, d, Len(bn))

RECURSIVE SplitSlash(_)
\* p.split("/")
SplitSlash(p) ==
  LET I == {i \in 1..Len(p) : p[i] = "/"}
  IN IF I = {} THEN <<p>>
     ELSE LET i == CHOOSE k \in I : \A j \in I : k <= j
          IN <<SubSeq(p, 1, i - 1)>> \o SplitSlash(SubSeq(p, i + 1, Len(p)))

RECURSIVE NormalizeSegs(_, _, _)
\* normalizeString of path.normalize, segment by segment
NormalizeSegs(segs, res, allowAboveRoot) ==
  IF segs = <<>> THEN res
  ELSE LET s == Head(segs)
           rest == Tail(segs)
       IN IF s = <<>> \/ s = <<".">> THEN NormalizeSegs(rest, res, allowAboveRoot)
          ELSE IF s = <<".", ".">>
               THEN IF res # <<>> /\ res[Len(res)] # <<".", ".">>
                    THEN NormalizeSegs(rest, SubSeq(res, 1, Len(res) - 1), allowAboveRoot)
                    ELSE IF allowAboveRoot
                         THEN NormalizeSegs(rest, Append(res, s), allowAboveRoot)
                         ELSE NormalizeSegs(rest, res, allowAboveRoot)
               ELSE NormalizeSegs(rest, Append(res, s), allowAboveRoot)

RECURSIVE JoinSegs(_)
\* segs.join("/")
JoinSegs(segs) ==
  IF segs = <<>> THEN <<>>
  ELSE IF Len(segs) = 1 THEN segs[1]
  ELSE segs[1] \o <<"/">> \o JoinSegs(Tail(segs))

\* path.normalize(p)
Normalize(p) ==
  IF p = <<>> THEN <<".">>
  ELSE LET isAbsolute == p[1] = "/"
           trailingSep == p[Len(p)] = "/"
           n == JoinSegs(NormalizeSegs(SplitSlash(p), <<>>, ~isAbsolute))
           m == IF n = <<>> /\ ~isAbsolute THEN <<".">> ELSE n
           t == IF m # <<>> /\ trailingSep THEN m \o <<"/">> ELSE m
       IN IF isAbsolute THEN <<"/">> \o t ELSE t

\* path.join(a, b)
Join(a, b) ==
  LET joined == IF a = <<>> THEN b
                ELSE IF b = <<>> THEN a
                ELSE a \o <<"/">> \o b
  IN IF joined = <<>> THEN <<".">> ELSE Normalize(joined)

\* String.prototype.substr(0, n)
Substr0(s, n) == IF n <= 0 THEN <<>> ELSE SubSeq(s, 1, IF n > Len(s) THEN Len(s) ELSE n)

(* ------------------------------ destination --------------------------- *)

\* as destination, cutting three characters off the base name
destinationCutThree(src, dir) ==
  LET d == IF Truthy(dir) THEN dir.s ELSE Dirname(src)
      bn == Basename(src)
  IN Join(d, Substr0(bn, Len(bn) - 3))

destination(src, dir) ==
  LET d == IF Truthy(dir) THEN dir.s ELSE Dirname(src)
      bn == Basename(src)
  IN Join(d, Substr0(bn, Len(bn) - 2))

(* ------------------------------ filesystem ---------------------------- *)

S_lang == <<"l","a","n","g">>
S_out == <<"o","u","t">>
S_out_slash == <<"o","u","t","/">>
S_out_sub == <<"o","u","t","/","s","u","b">>
S_x_json == <<"x",".","j","s","o","n">>
S_en_json == <<"l","a","n","g","/","e","n",".","j","s","o","n">>
S_fr_json == <<"l","a","n","g","/","f","r",".","j","s","o","n">>
S_dot_json == <<"l","a","n","g","/",".","j","s","o","n">>
S_a_md == <<"l","a","n","g","/","a",".","m","d">>
S_a_json == <<"a","/","*",".","j","s","o","n">>
S_b_json == <<"b","/","*",".","j","s","o","n">>

\* the regular files on the filesystem; the program never creates or removes one
Files == {S_en_json, S_fr_json, S_dot_json, S_a_md}

\* the directory a path names: normalised, without a trailing slash
DirKey(p) ==
  LET k == StripTrailingSlashes(Normalize(p))
  IN IF k = <<>> THEN <<"/">> ELSE k

RECURSIVE AncestorChain(_)
\* a directory and the ancestors mkdirp may have to create for it
AncestorChain(k) ==
  IF k \in {<<".">>, <<"/">>, <<".", ".">>, <<>>} THEN {}
  ELSE {k} \cup AncestorChain(Dirname(k))

\* mkdirp.sync(p) on filesystem fs: the outcomes the environment allows.
\* ok = FALSE is a thrown error.
\* as MkdirpOutcomes, but throwing when the directory already exists
\* (a plain mkdir)
MkdirOutcomes(p, fs) ==
  LET chain == AncestorChain(DirKey(p))
      missing == chain \ fs
  IN IF missing = {} \/ chain \cap Files # {}
     THEN {[ok |-> FALSE, fs |-> fs]}
     ELSE {[ok |-> TRUE, fs |-> fs \cup chain]}
          \cup {[ok |-> FALSE, fs |-> fs \cup m] :
                  m \in {x \in SUBSET missing :
                           /\ x # missing
                           /\ \A d \in x : AncestorChain(d) \cap missing \subseteq x}}

MkdirpOutcomes(p, fs) ==
  LET chain == AncestorChain(DirKey(p))
      missing == chain \ fs
  IN IF missing = {} THEN {[ok |-> TRUE, fs |-> fs]}
     ELSE IF chain \cap Files # {} THEN {[ok |-> FALSE, fs |-> fs]}
     ELSE {[ok |-> TRUE, fs |-> fs \cup chain]}
          \cup {[ok |-> FALSE, fs |-> fs \cup m] :
                  m \in {x \in SUBSET missing :
                           /\ x # missing
                           /\ \A d \in x : AncestorChain(d) \cap missing \subseteq x}}

\* entries of the log of calls to the two collaborators
MkdirpCall(dir, ok) ==
  [fn |-> "mkdirp", dir |-> dir, ok |-> ok, pats |-> <<>>, paths |-> <<>>]
GlobbyCall(pats, paths) ==
  [fn |-> "globby", dir |-> None, ok |-> TRUE, pats |-> pats, paths |-> paths]

(* ------------------------------ normalizeDir -------------------------- *)

\* as normalizeDir, testing only typeof dir === 'string'
normalizeDirAnyString(dir, fs) ==
  IF dir.t = "string"
  THEN {[ret |-> IF o.ok THEN dir ELSE Null, threw |-> FALSE, fs |-> o.fs,
         calls |-> <<MkdirpCall(dir, o.ok)>>] : o \in MkdirpOutcomes(dir.s, fs)}
  ELSE {[ret |-> Null, threw |-> FALSE, fs |-> fs, calls |-> <<>>]}

\* as normalizeDir, without the try/catch
normalizeDirNoCatch(dir, fs) ==
  IF nonEmptyStr(dir)
  THEN {[ret |-> IF o.ok THEN dir ELSE Thrown, threw |-> ~o.ok, fs |-> o.fs,
         calls |-> <<MkdirpCall(dir, o.ok)>>] : o \in MkdirpOutcomes(dir.s, fs)}
  ELSE {[ret |-> Null, threw |-> FALSE, fs |-> fs, calls |-> <<>>]}

\* the possible results of normalizeDir(dir) on filesystem fs
normalizeDir(dir, fs) ==
  IF nonEmptyStr(dir)
  THEN {[ret |-> IF o.ok THEN dir ELSE Null, threw |-> FALSE, fs |-> o.fs,
         calls |-> <<MkdirpCall(dir, o.ok)>>] : o \in MkdirpOutcomes(dir.s, fs)}
  ELSE {[ret |-> Null, threw |-> FALSE, fs |-> fs, calls |-> <<>>]}

(* ------------------------------ findSources --------------------------- *)

JsonExt == <<".","j","s","o","n">>

\* the sequences globby.sync may return on filesystem fs: duplicate-free
\* sequences of existing files and directories (which of them match is the
\* resolver's business)
GlobResults(fs) == InjSeqsUpTo(Files \cup (fs \ {<<".">>}), MaxGlob)

EndsWith(p, suffix) ==
  Len(p) >= Len(suffix) /\ SubSeq(p, Len(p) - Len(suffix) + 1, Len(p)) = suffix

\* as findSources, testing the end of the path instead of path.extname
findSourcesEndsWith(g) == SelectSeq(g, LAMBDA f : EndsWith(f, JsonExt))

\* findSources, given the result g of globby.sync(patterns)
findSources(g) == SelectSeq(g, LAMBDA f : Extname(f) = JsonExt)

(* ------------------------------ processSources ------------------------ *)

\* as processSources, losing the first source
processSourcesDropFirst(srces, dir) ==
  [i \in 1..(Len(srces) - 1) |-> destination(srces[i + 1], Undefined)]

\* destination is called with one argument: its dir parameter is undefined
processSources(srces, dir) ==
  [i \in 1..Len(srces) |-> destination(srces[i], Undefined)]

(* -------------------------------- convert ----------------------------- *)

\* as convert, normalising the directory before resolving the patterns
convertDirFirst(patterns, dir, fs) ==
  LET pats == normalizePatterns(patterns)
  IN UNION {
       {[ret |-> IF nd.threw THEN Thrown
                 ELSE [srces |-> findSources(g),
                       dests |-> processSources(findSources(g), nd.ret)],
         ndir |-> nd.ret,
         fs |-> nd.fs,
         calls |-> nd.calls \o <<GlobbyCall(pats, g)>>] : g \in GlobResults(nd.fs)}
       : nd \in normalizeDir(dir, fs)}

\* the possible results of convert(patterns, dir) on filesystem fs
convert(patterns, dir, fs) ==
  LET pats == normalizePatterns(patterns)
  IN UNION {
       {[ret |-> IF nd.threw THEN Thrown
                 ELSE [srces |-> findSources(g),
                       dests |-> processSources(findSources(g), nd.ret)],
         ndir |-> nd.ret,
         fs |-> nd.fs,
         calls |-> <<GlobbyCall(pats, g)>> \o nd.calls] : nd \in normalizeDir(dir, fs)}
       : g \in GlobResults(fs)}

(* ------------------------------- inputs ------------------------------- *)

PatternElems ==
  {Str(<<>>), Str(<<" ", " ">>), Str(S_a_json), Str(S_b_json), Str(<<" ", "a">>),
   Null, Num42}

PatternInputs ==
  {Undefined, Null, Num0, Num42, Obj} \cup PatternElems
    \cup {Arr(a) : a \in SeqsUpTo(PatternElems, MaxArr)}

ConvertPatternInputs ==
  {Undefined, Str(S_a_json), Arr(<<Str(<<>>), Str(S_b_json)>>)}

DirInputs ==
  {Undefined, Null, Num42, Str(<<>>), Str(<<" ">>), Str(S_lang), Str(S_out),
   Str(S_out_slash), Str(S_out_sub), Str(S_x_json), Str(S_en_json)}

SrcPrefixes ==
  {<<>>, S_lang \o <<"/">>, <<"l","/">>, <<"/">>, <<"l","/","m","/">>, <<".","/">>,
   <<".",".","/">>, <<"l","/","/">>, <<"l","/",".",".","/">>}

SrcNames ==
  {<<"e","n">> \o JsonExt, JsonExt, <<".">> \o JsonExt, <<"e",".","x">> \o JsonExt,
   <<"e","n",".","j","s">>, <<"e","n">>, <<"n">>}

SrcInputs ==
  {p \o n \o t : p \in SrcPrefixes, n \in SrcNames, t \in {<<>>, <<"/">>}}

\* the directory references destination is given: a string or the absent value
DirRefs ==
  {Null, Undefined, Str(<<>>), Str(S_out), Str(S_out_slash), Str(<<"/">>),
   Str(<<".">>), Str(<<".",".">>), Str(<<" ">>), Str(S_out_sub)}

(* ------------------------------- actions ------------------------------ *)

NoPrev == [arg |-> None, ret |-> None, before |-> {}]

Blank ==
  /\ ret = None
  /\ dirsBefore = {}
  /\ ndir = None
  /\ calls = <<>>
  /\ prev = NoPrev

\* normalizePatterns(arg)
NormalizePatternsStep ==
  /\ pc = "start"
  /\ pc' = "normalizePatterns"
  /\ ret' = normalizePatterns(arg)
  /\ UNCHANGED <<arg, dirs, dirsBefore, ndir, calls, prev>>

\* destination(arg.src, arg.dir)
DestinationStep ==
  /\ pc = "start"
  /\ pc' = "destination"
  /\ ret' = destination(arg.src, arg.dir)
  /\ UNCHANGED <<arg, dirs, dirsBefore, ndir, calls, prev>>

\* normalizeDir(dir)
NormalizeDirCall ==
  /\ pc = "idle"
  /\ \E dir \in DirInputs : \E r \in normalizeDir(dir, dirs) :
       /\ pc' = "normalizeDir"
       /\ arg' = dir
       /\ ret' = r.ret
       /\ dirs' = r.fs
       /\ dirsBefore' = dirs
       /\ calls' = r.calls
  /\ UNCHANGED <<ndir, prev>>

\* the caller takes the value normalizeDir returned
NormalizeDirReturn ==
  /\ pc = "normalizeDir"
  /\ pc' = "idle"
  /\ prev' = [arg |-> arg, ret |-> ret, before |-> dirsBefore]
  /\ arg' = None
  /\ ret' = None
  /\ dirsBefore' = {}
  /\ calls' = <<>>
  /\ UNCHANGED <<dirs, ndir>>

\* convert(patterns, dir)
Convert ==
  /\ pc = "idle"
  /\ \E patterns \in ConvertPatternInputs, dir \in DirInputs :
       \E r \in convert(patterns, dir, dirs) :
         /\ pc' = "convert"
         /\ arg' = [patterns |-> patterns, dir |-> dir]
         /\ ret' = r.ret
         /\ ndir' = r.ndir
         /\ dirs' = r.fs
         /\ dirsBefore' = dirs
         /\ calls' = r.calls
  /\ UNCHANGED prev

\* the invocation is over: its values are gone, the directories stay
ConvertReturn ==
  /\ pc = "convert"
  /\ pc' = "idle"
  /\ arg' = None
  /\ ret' = None
  /\ ndir' = None
  /\ dirsBefore' = {}
  /\ calls' = <<>>
  /\ UNCHANGED <<dirs, prev>>

(* ---------------------------- specifications -------------------------- *)

\* the directories present before the program runs: cwd, lang/, perhaps out/
InitDirs == {{<<".">>, S_lang}, {<<".">>, S_lang, S_out}}

Init ==
  /\ pc = "idle"
  /\ arg = None
  /\ dirs \in InitDirs
  /\ Blank

Next == Convert \/ ConvertReturn

\* convert, called any number of times on one filesystem
Spec == Init /\ [][Next]_vars

NextNormalizeDir == NormalizeDirCall \/ NormalizeDirReturn

\* normalizeDir, called any number of times on one filesystem
SpecNormalizeDir == Init /\ [][NextNormalizeDir]_vars

InitPatterns ==
  /\ pc = "start"
  /\ arg \in PatternInputs
  /\ dirs = {}
  /\ Blank

NextPatterns == NormalizePatternsStep

\* normalizePatterns applied to each input
SpecPatterns == InitPatterns /\ [][NextPatterns]_vars

InitDestination ==
  /\ pc = "start"
  /\ arg \in [src : SrcInputs, dir : DirRefs]
  /\ dirs = {}
  /\ Blank

NextDestination == DestinationStep

\* destination applied to each (src, dir)
SpecDestination == InitDestination /\ [][NextDestination]_vars

(* ------------------------ vocabulary of the claims -------------------- *)

\* a string with at least one non-whitespace character
IsNonEmptyString(v) ==
  v.t = "string" /\ Range(v.s) \ Whitespace # {}

\* the k-th smallest element of a set of indices
KthOf(I, k) == CHOOSE i \in I : Cardinality({j \in I : j <= i}) = k

\* sub is seq restricted to the indices in I, in seq's order
IsSelection(sub, seq, I) ==
  /\ Len(sub) = Cardinality(I)
  /\ \A k \in 1..Len(sub) : sub[k] = seq[KthOf(I, k)]

\* s without its last n characters
DropLast(s, n) == [i \in 1..(Len(s) - n) |-> s[i]]

\* the file name of the destination of src: the base name minus "on"
TargetName(src) == DropLast(Basename(src), 2)

\* the base name of src ends in ".json"
IsJsonName(src) == EndsWith(Basename(src), JsonExt)

\* the mkdirp.sync calls of the current invocation
MkdirpCalls == {i \in 1..Len(calls) : calls[i].fn = "mkdirp"}

(* -------------------------------- claims ------------------------------ *)

\* C1: when convert is called with a dir that is a non-empty string and whose
\* directory creation succeeds, every returned destination is the join of
\* dir with the source's base name minus its final two characters.
C1_DestsInDir ==
  (pc = "convert" /\ IsNonEmptyString(arg.dir)
     /\ \E i \in MkdirpCalls : calls[i].ok)
  => \A i \in 1..Len(ret.dests) :
       ret.dests[i] = Join(arg.dir.s, TargetName(ret.srces[i]))

C3_CreationFailureDegrades ==
  (pc = "convert" /\ IsNonEmptyString(arg.dir)
     /\ \E i \in MkdirpCalls : ~calls[i].ok)
  => /\ ndir = Null
     /\ ret # Thrown
     /\ Len(ret.dests) = Len(ret.srces)
     /\ \A i \in 1..Len(ret.srces) :
          ret.dests[i] = Join(Dirname(ret.srces[i]), TargetName(ret.srces[i]))

C3_Witness ==
  /\ pc = "convert"
  /\ IsNonEmptyString(arg.dir)
  /\ \E i \in MkdirpCalls : ~calls[i].ok
  /\ Len(ret.srces) >= 1

\* the inputs C4 lists: an empty or whitespace-only string, null/absent, a
\* value that is neither array nor string, an array without non-empty string
IsDefaultCase(v) ==
  \/ v.t = "string" /\ Range(v.s) \subseteq Whitespace
  \/ v.t \notin {"string", "array"}
  \/ v.t = "array" /\ \A i \in 1..Len(v.a) : ~IsNonEmptyString(v.a[i])

\* C4: for every such input normalizePatterns returns ["lang/*.json"]; for
\* every input the result is a non-empty sequence of non-empty strings.
C4_DefaultAndNonEmpty ==
  pc = "normalizePatterns" =>
    /\ IsDefaultCase(arg) =>
         ret = <<Str(<<"l","a","n","g","/","*",".","j","s","o","n">>)>>
    /\ ret # <<>>
    /\ \A i \in 1..Len(ret) : IsNonEmptyString(ret[i])

C4_Witness ==
  /\ pc = "normalizePatterns"
  /\ arg.t = "array" /\ Len(arg.a) >= 2
  /\ IsDefaultCase(arg)

\* C5: when the input holds at least one non-empty string, the result is
\* exactly the input's non-empty strings in their order: [s] for a lone
\* string s, the non-empty-string elements for an array, untouched.
C5_ExactlyTheNonEmptyStrings ==
  pc = "normalizePatterns" =>
    /\ IsNonEmptyString(arg) => ret = <<arg>>
    /\ (arg.t = "array" /\ \E i \in 1..Len(arg.a) : IsNonEmptyString(arg.a[i]))
         => IsSelection(ret, arg.a,
                        {i \in 1..Len(arg.a) : IsNonEmptyString(arg.a[i])})

\* the example of the claim: ["", "a/*.json", "  ", "b/*.json"]
C5_Witness ==
  /\ pc = "normalizePatterns"
  /\ arg = Arr(<<Str(<<>>), Str(S_a_json), Str(<<" ", " ">>), Str(S_b_json)>>)
  /\ ret = <<Str(S_a_json), Str(S_b_json)>>

\* C6: findSources returns exactly the paths of the resolver's result whose
\* extension is ".json", in the resolver's order.
C6_ExactlyTheJsonPaths ==
  pc = "convert" =>
    LET g == calls[1].paths
    IN /\ calls[1].fn = "globby"
       /\ \A i \in 1..Len(ret.srces) : Extname(ret.srces[i]) = JsonExt
       /\ Range(ret.srces) \subseteq Range(g)
       /\ IsSelection(ret.srces, g, {i \in 1..Len(g) : Extname(g[i]) = JsonExt})

\* the resolver returned the hidden file "lang/.json", whose extension is ""
C6_Witness ==
  /\ pc = "convert"
  /\ calls[1].paths = <<S_dot_json, S_en_json>>
  /\ ret.srces = <<S_en_json>>

\* C7: normalizeDir on a directory that does not exist creates it and
\* returns the path unchanged; a later call with the same path, the
\* directory now existing, returns the same path and leaves the filesystem
\* as it is.
C7_NormalizeDirIdempotent ==
  (pc = "normalizeDir" /\ IsNonEmptyString(arg)) =>
    LET k == DirKey(arg.s)
    IN /\ (k \notin dirsBefore /\ k \in dirs) => ret = arg
       /\ ret = arg => k \in dirs
       /\ ret \in {arg, Null}
       /\ k \in dirsBefore => (ret = arg /\ dirs = dirsBefore)
       /\ (prev.arg = arg /\ prev.ret = arg) => (ret = arg /\ dirs = dirsBefore)

\* the second of two successive calls, the first of which created the directory
C7_Witness ==
  /\ pc = "normalizeDir"
  /\ IsNonEmptyString(arg)
  /\ prev.arg = arg /\ prev.ret = arg
  /\ DirKey(arg.s) \notin prev.before
  /\ ret = arg

\* C8: when dir is not a non-empty string, normalizeDir returns null without
\* attempting directory creation, and the filesystem is unchanged.
C8_NoAttemptWithoutDir ==
  (pc = "normalizeDir" /\ ~IsNonEmptyString(arg)) =>
    /\ ret = Null
    /\ calls = <<>>
    /\ dirs = dirsBefore

C8_Witness ==
  /\ pc = "normalizeDir"
  /\ arg = Str(<<" ">>)
  /\ ret = Null

\* C9: for a source whose base name ends in ".json", destination(src, dir)
\* is the join of dir (when present, else the directory of src) with the base
\* name minus two characters: its file name is the stem followed by ".js".
C9_Destination ==
  (pc = "destination" /\ IsJsonName(arg.src)) =>
    LET stem == DropLast(Basename(arg.src), 5)
        d == IF arg.dir.t = "string" /\ arg.dir.s # <<>>
             THEN arg.dir.s ELSE Dirname(arg.src)
    IN /\ ret = Join(d, stem \o <<".","j","s">>)
       /\ Basename(ret) = stem \o <<".","j","s">>
       /\ (arg.src = S_en_json /\ arg.dir \in {Null, Undefined})
            => ret = <<"l","a","n","g","/","e","n",".","j","s">>
       /\ (arg.src = S_en_json /\ arg.dir = Str(S_out))
            => ret = <<"o","u","t","/","e","n",".","j","s">>

C9_Witness ==
  /\ pc = "destination"
  /\ arg.src = S_en_json
  /\ arg.dir = Str(S_out)
  /\ ret = <<"o","u","t","/","e","n",".","j","s">>

\* C10: within one convert call the glob resolution comes before any
\* directory creation, so srces holds only paths that existed before the
\* call; the creation is attempted whenever dir is a non-empty string, even
\* with no source.
C10_GlobBeforeMkdirp ==
  pc = "convert" =>
    /\ calls[1].fn = "globby"
    /\ \A i \in MkdirpCalls : i > 1
    /\ Range(ret.srces) \subseteq Files \cup dirsBefore
    /\ IsNonEmptyString(arg.dir)
         => \E i \in MkdirpCalls : calls[i].dir = arg.dir
    /\ ~IsNonEmptyString(arg.dir) => MkdirpCalls = {}

\* the call created the directory "x.json" and found no source
C10_Witness ==
  /\ pc = "convert"
  /\ arg.dir = Str(S_x_json)
  /\ S_x_json \notin dirsBefore
  /\ S_x_json \in dirs
  /\ ret.srces = <<>>

====
